---- MODULE Spec2Model ----
(***************************************************************************)
(* Model of the RAG backend (main.py, documents.py): process start-up that *)
(* builds the vector index, and the /rag handler rag_endpoint with its two *)
(* external calls, vectorstore.similarity_search and llm.invoke.           *)
(* Text is modelled as a sequence of one-character strings, so that        *)
(* str.strip, "\n".join and the f-string templates are computed.           *)
(***************************************************************************)
EXTENDS Naturals, Sequences, FiniteSets, TLC

\* ------------------------------------------------------------ bounds ----
\* number of request slots that may be in flight at the same time
NumReq == 2
\* longest conversation history of a request
MaxMsgs == 2
\* number of passages of the corpus
NumDocs == 2
\* k=2 of vectorstore.similarity_search(last_message, k=2)
K == 2

Slots == 1..NumReq

\* ---------------------------------------------------------- text --------
Whitespace == {" ", "\n", "\t", "\r"}

IsSpace(c) == c \in Whitespace

RECURSIVE lstrip(_)
lstrip(s) ==
  IF s = <<>> THEN <<>>
  ELSE IF IsSpace(Head(s)) THEN lstrip(Tail(s)) ELSE s

RECURSIVE rstrip(_)
rstrip(s) ==
  IF s = <<>> THEN <<>>
  ELSE IF IsSpace(s[Len(s)]) THEN rstrip(SubSeq(s, 1, Len(s) - 1)) ELSE s

\* str.strip(): leading and trailing whitespace removed
strip(s) == rstrip(lstrip(s))

\* sep.join(parts)
RECURSIVE join(_, _)
join(sep, parts) ==
  IF parts = <<>> THEN <<>>
  ELSE IF Len(parts) = 1 THEN parts[1]
  ELSE parts[1] \o sep \o join(sep, Tail(parts))

NL == <<"\n">>

\* ---------------------------------------------------------- inputs ------
RoleUser == <<"u", "s", "e", "r">>
RoleAssistant == <<"a", "s", "s", "i", "s", "t", "a", "n", "t">>
RoleSystem == <<"s", "y", "s", "t", "e", "m">>

\* Message.role is declared str: any string is accepted
Roles == {RoleUser, RoleAssistant, RoleSystem}

Contents == {<<>>, <<" ">>, <<"a">>, <<" ", "b">>}

\* class Message(BaseModel)
Message == [role : Roles, content : Contents]

\* class ChatRequest(BaseModel): the messages list
ChatRequest == UNION {[1..n -> Message] : n \in 0..MaxMsgs}

\* requests of one user turn at most, used where two invocations are compared
SmallRequest == {m \in ChatRequest : Len(m) <= 1 /\ \A i \in 1..Len(m) : m[i].role = RoleUser}

\* requests used where any number of requests interleave: the empty list, a
\* whitespace-only turn and a valid turn
ConcRequest == {m \in SmallRequest : \A i \in 1..Len(m) : m[i].content \in {<<" ">>, <<"a">>}}

\* texts llm.invoke may return
GenTexts == {<<>>, <<" ">>, <<" ", "x", "\n">>}

\* causes of an exception raised by a collaborator
Causes == {"timeout", "transport"}

\* ---------------------------------------------------------- corpus ------
\* documents.py DOCUMENTS: pairwise distinct passage texts
DOCUMENTS == [i \in 1..NumDocs |-> [j \in 1..i |-> "p"]]

\* documents = [Document(page_content=doc) for doc in DOCUMENTS]
documents == [i \in 1..NumDocs |-> [page_content |-> DOCUMENTS[i]]]

Min(a, b) == IF a < b THEN a ELSE b

\* results similarity_search(query, k) can return on index vs: k documents
\* of the index (all of them when it holds fewer), without repetition, in
\* the rank order the opaque embedding decides
SearchResults(vs, k) ==
  {[i \in 1..Min(k, Len(vs)) |-> vs[f[i]]] :
     f \in {g \in [1..Min(k, Len(vs)) -> 1..Len(vs)] :
              \A i, j \in 1..Min(k, Len(vs)) : i # j => g[i] # g[j]}}

\* ---------------------------------------------------------- state -------
VARIABLES
  server,       \* "starting", "ready" or "crashed": position of the module-level code
  vectorstore,  \* the FAISS index: the indexed documents, <<>> before it is built
  builds,       \* number of times FAISS.from_documents has run
  reqs,         \* per slot: the handler's position, locals, external calls and response
  searchMemo,   \* fixed stand-in for similarity_search: the answers it has given so far
  genMemo       \* fixed stand-in for llm.invoke: the answers it has given so far

vars == <<server, vectorstore, builds, reqs, searchMemo, genMemo>>

NoResponse == [status |-> 0]

IdleReq ==
  [stage |-> "Idle", messages |-> <<>>, last_message |-> <<>>, docs |-> <<>>,
   prompt |-> <<>>, answer |-> <<>>, calls |-> <<>>, error |-> "",
   response |-> NoResponse]

Init ==
  /\ server = "starting"
  /\ vectorstore = <<>>
  /\ builds = 0
  /\ reqs = [r \in Slots |-> IdleReq]
  /\ searchMemo = {}
  /\ genMemo = {}

\* ---------------------------------------------------------- start-up ----
\* vectorstore = FAISS.from_documents(documents, embeddings)
FromDocuments(docs) == docs

\* main.py 39-45: the module-level initialisation succeeds
Startup ==
  /\ server = "starting"
  /\ server' = "ready"
  /\ vectorstore' = FromDocuments(documents)
  /\ builds' = builds + 1
  /\ UNCHANGED <<reqs, searchMemo, genMemo>>

\* main.py 39-45: an embedding call fails and the import raises
StartupFail ==
  /\ server = "starting"
  /\ server' = "crashed"
  /\ UNCHANGED <<vectorstore, builds, reqs, searchMemo, genMemo>>

\* ---------------------------------------------------------- handler -----
\* HTTPException(status_code=..., detail=...)
HTTPException(status_code, detail) == [status |-> status_code, detail |-> detail]

\* variant: the last content is tested without .strip()
RejectedNoStrip(messages) ==
  \/ messages = <<>>
  \/ messages[Len(messages)].content = <<>>

\* not request.messages or not request.messages[-1].content.strip()
Rejected(messages) ==
  \/ messages = <<>>
  \/ strip(messages[Len(messages)].content) = <<>>

\* main.py 47-48: a request body is parsed into ChatRequest and the handler starts
Receive(r, messages) ==
  /\ server = "ready"
  /\ reqs[r].stage = "Idle"
  /\ reqs' = [reqs EXCEPT ![r] = [IdleReq EXCEPT !.stage = "Validating", !.messages = messages]]
  /\ UNCHANGED <<server, vectorstore, builds, searchMemo, genMemo>>

\* main.py 51, 71, 74: the handler has returned or raised, the response is
\* sent and nothing of the request is kept
Close(r) ==
  /\ reqs[r].stage \in {"Responding", "Failed"}
  /\ reqs' = [reqs EXCEPT ![r] = IdleReq]
  /\ UNCHANGED <<server, vectorstore, builds, searchMemo, genMemo>>

\* main.py 49-54
AfterValidate(req) ==
  IF Rejected(req.messages)
  THEN [req EXCEPT !.stage = "Failed",
                   !.response = HTTPException(400, "Last message cannot be empty")]
  ELSE [req EXCEPT !.stage = "Retrieving",
                   !.last_message = req.messages[Len(req.messages)].content]

Validate(r) ==
  /\ reqs[r].stage = "Validating"
  /\ reqs' = [reqs EXCEPT ![r] = AfterValidate(reqs[r])]
  /\ UNCHANGED <<server, vectorstore, builds, searchMemo, genMemo>>

\* variant: the history is rendered without the latest turn, request.messages[:-1]
history_strNoLatest(messages) ==
  join(NL, [i \in 1..(Len(messages) - 1) |-> messages[i].role \o <<":", " ">> \o messages[i].content])

\* [f"{msg.role}: {msg.content}" for msg in request.messages] joined by "\n"
history_str(messages) ==
  join(NL, [i \in 1..Len(messages) |-> messages[i].role \o <<":", " ">> \o messages[i].content])

\* "\n".join([doc.page_content for doc in docs])
context(docs) == join(NL, [i \in 1..Len(docs) |-> docs[i].page_content])

\* f"History:\n{history_str}\nContext: {context}\nAssistant: Respond concisely ...:"
BuildPrompt(messages, docs) ==
  <<"H", "i", "s", "t", "o", "r", "y", ":", "\n">>
  \o history_str(messages)
  \o <<"\n", "C", "o", "n", "t", "e", "x", "t", ":", " ">>
  \o context(docs)
  \o <<"\n", "A", "s", "s", "i", "s", "t", "a", "n", "t", ":", " ", "R", "e", "s", "p", "o", "n", "d", " ", "c", "o", "n", "c", "i", "s", "e", "l", "y", " ", "b", "a", "s", "e", "d", " ", "o", "n", " ", "t", "h", "e", " ", "h", "i", "s", "t", "o", "r", "y", " ", "a", "n", "d", " ", "c", "o", "n", "t", "e", "x", "t", ":">>

\* variant: the sources are listed in reverse order
sourcesReversed(docs) == [i \in 1..Len(docs) |-> docs[Len(docs) + 1 - i].page_content]

\* sources = [doc.page_content for doc in docs]
sources(docs) == [i \in 1..Len(docs) |-> docs[i].page_content]

\* variant: the exception text is sent to the caller, detail=str(e)
OnExceptionLeak(req, call, cause) ==
  [req EXCEPT !.stage = "Failed",
              !.calls = Append(req.calls, call),
              !.error = cause,
              !.response = [status |-> 500, detail |-> cause]]

\* variant: the failed call is tried again instead of failing the request
OnExceptionRetry(req, call, cause) ==
  [req EXCEPT !.calls = Append(req.calls, call),
              !.error = cause]

\* except Exception as e: logger.error(...); raise HTTPException(500, ...)
OnException(req, call, cause) ==
  [req EXCEPT !.stage = "Failed",
              !.calls = Append(req.calls, call),
              !.error = cause,
              !.response = HTTPException(500, "RAG processing failed")]

\* variant: last_message is a module-level global shared by the handlers in
\* flight, so a handler reads what the latest validated request wrote
SearchArgShared(req) ==
  LET waiting == {s \in Slots : reqs[s].stage = "Retrieving"} IN
  IF waiting = {} THEN req.last_message
  ELSE reqs[CHOOSE s \in waiting : \A t \in waiting : s >= t].last_message

\* the query handed to vectorstore.similarity_search
SearchArg(req) == req.last_message

\* outcomes of the similarity_search call: documents, or an exception
SearchOutcomes(vs) ==
  {[ok |-> TRUE, docs |-> d, cause |-> ""] : d \in SearchResults(vs, K)}
    \cup {[ok |-> FALSE, docs |-> <<>>, cause |-> c] : c \in Causes}

\* main.py 57-65 and 72-74: the handler from the similarity_search call to the llm.invoke call
OnSearch(req, out) ==
  LET call == [op |-> "similarity_search", arg |-> SearchArg(req), ok |-> out.ok] IN
  IF out.ok
  THEN [req EXCEPT !.stage = "Generating",
                   !.calls = Append(req.calls, call),
                   !.docs = out.docs,
                   !.prompt = BuildPrompt(req.messages, out.docs)]
  ELSE OnException(req, call, out.cause)

\* outcomes of the llm.invoke call: a text, or an exception
GenOutcomes ==
  {[ok |-> TRUE, text |-> t, cause |-> ""] : t \in GenTexts}
    \cup {[ok |-> FALSE, text |-> <<>>, cause |-> c] : c \in Causes}

\* variant: an answer that is empty after strip() is raised as an error
OnInvokeRejectEmpty(req, out) ==
  LET call == [op |-> "invoke", arg |-> req.prompt, ok |-> out.ok] IN
  IF out.ok /\ strip(out.text) # <<>>
  THEN [req EXCEPT !.stage = "Responding",
                   !.calls = Append(req.calls, call),
                   !.answer = out.text,
                   !.response = [status |-> 200, answer |-> strip(out.text),
                                 sources |-> [i \in 1..Len(req.docs) |-> req.docs[i].page_content]]]
  ELSE [req EXCEPT !.stage = "Failed",
                   !.calls = Append(req.calls, call),
                   !.answer = out.text,
                   !.error = out.cause,
                   !.response = [status |-> 500, detail |-> "RAG processing failed"]]

\* main.py 67-74: the handler from the llm.invoke call to its response
OnInvoke(req, out) ==
  LET call == [op |-> "invoke", arg |-> req.prompt, ok |-> out.ok] IN
  IF out.ok
  THEN [req EXCEPT !.stage = "Responding",
                   !.calls = Append(req.calls, call),
                   !.answer = out.text,
                   !.response = [status |-> 200, answer |-> strip(out.text),
                                 sources |-> sources(req.docs)]]
  ELSE OnException(req, call, out.cause)

\* variant: the handler builds the index again on every request
RetrieveReindex(r) ==
  /\ reqs[r].stage = "Retrieving"
  /\ vectorstore' = [i \in 1..NumDocs |-> [page_content |-> DOCUMENTS[i]]]
  /\ builds' = builds + 1
  /\ \E out \in {[ok |-> FALSE, docs |-> <<>>, cause |-> c] : c \in Causes}
                \cup {[ok |-> TRUE, docs |-> d, cause |-> ""] : d \in SearchResults(vectorstore, K)} :
       reqs' = [reqs EXCEPT ![r] =
                  IF out.ok
                  THEN [reqs[r] EXCEPT !.stage = "Generating",
                                       !.calls = Append(reqs[r].calls, [op |-> "similarity_search", arg |-> reqs[r].last_message, ok |-> TRUE]),
                                       !.docs = out.docs]
                  ELSE [reqs[r] EXCEPT !.stage = "Failed",
                                       !.calls = Append(reqs[r].calls, [op |-> "similarity_search", arg |-> reqs[r].last_message, ok |-> FALSE]),
                                       !.response = [status |-> 500, detail |-> "RAG processing failed"]]]
  /\ UNCHANGED <<server, searchMemo, genMemo>>

\* the retrieval step with a live embedding service: any outcome
Retrieve(r) ==
  /\ reqs[r].stage = "Retrieving"
  /\ \E out \in SearchOutcomes(vectorstore) :
       reqs' = [reqs EXCEPT ![r] = OnSearch(reqs[r], out)]
  /\ UNCHANGED <<server, vectorstore, builds, searchMemo, genMemo>>

\* the generation step with a live model: any outcome
Generate(r) ==
  /\ reqs[r].stage = "Generating"
  /\ \E out \in GenOutcomes :
       reqs' = [reqs EXCEPT ![r] = OnInvoke(reqs[r], out)]
  /\ UNCHANGED <<server, vectorstore, builds, searchMemo, genMemo>>

\* one request at a time, full range of requests
Next ==
  \/ Startup
  \/ StartupFail
  \/ \E m \in ChatRequest : Receive(1, m)
  \/ Validate(1)
  \/ Retrieve(1)
  \/ Generate(1)
  \/ Close(1)

Spec == Init /\ [][Next]_vars

\* any number of requests in flight, interleaved at their external calls
NextConc ==
  \/ Startup
  \/ StartupFail
  \/ \E r \in Slots : \E m \in ConcRequest : Receive(r, m)
  \/ \E r \in Slots : Validate(r)
  \/ \E r \in Slots : Retrieve(r)
  \/ \E r \in Slots : Generate(r)
  \/ \E r \in Slots : Close(r)

SpecConc == Init /\ [][NextConc]_vars

\* ------------------------------------------- deterministic stand-ins ----
\* the answer a fixed function gives for arg: the one it gave before, or,
\* the first time arg is asked, any of its possible outcomes
FixedOutcomes(memo, arg, outcomes) ==
  IF \E e \in memo : e.arg = arg
  THEN {e.out : e \in {x \in memo : x.arg = arg}}
  ELSE outcomes

\* the retrieval step against a deterministic stand-in
RetrieveFixed(r) ==
  /\ reqs[r].stage = "Retrieving"
  /\ \E out \in FixedOutcomes(searchMemo, SearchArg(reqs[r]), SearchOutcomes(vectorstore)) :
       /\ reqs' = [reqs EXCEPT ![r] = OnSearch(reqs[r], out)]
       /\ searchMemo' = searchMemo \cup {[arg |-> SearchArg(reqs[r]), out |-> out]}
  /\ UNCHANGED <<server, vectorstore, builds, genMemo>>

\* the generation step against a deterministic stand-in
GenerateFixed(r) ==
  /\ reqs[r].stage = "Generating"
  /\ \E out \in FixedOutcomes(genMemo, reqs[r].prompt, GenOutcomes) :
       /\ reqs' = [reqs EXCEPT ![r] = OnInvoke(reqs[r], out)]
       /\ genMemo' = genMemo \cup {[arg |-> reqs[r].prompt, out |-> out]}
  /\ UNCHANGED <<server, vectorstore, builds, searchMemo>>

\* the two invocations that are compared
DetSlots == {1, 2}

NextDet ==
  \/ Startup
  \/ StartupFail
  \/ \E r \in DetSlots : \E m \in SmallRequest : Receive(r, m)
  \/ \E r \in DetSlots : Validate(r)
  \/ \E r \in DetSlots : RetrieveFixed(r)
  \/ \E r \in DetSlots : GenerateFixed(r)
  \/ \E r \in DetSlots : Close(r)

SpecDet == Init /\ [][NextDet]_vars

\* ------------------------------------------------------------ claims ----
\* s contains only whitespace
Blank(s) == \A i \in 1..Len(s) : s[i] \in Whitespace

\* the request is one the /rag operation must refuse
InvalidRequest(messages) == Len(messages) = 0 \/ Blank(messages[Len(messages)].content)

\* the names of the external calls a request has made, in order
CallOps(req) == [i \in 1..Len(req.calls) |-> req.calls[i].op]

\* the passage texts the retrieval step of the request returned
Retrieved(req) == [i \in 1..Len(req.docs) |-> req.docs[i].page_content]

\* C1: a request whose messages list is empty, or whose last content is
\* whitespace only, ends in status 400 and makes no external call, neither
\* similarity_search nor invoke, at any point of its handling
C1_InvalidRequestNoCalls ==
  \A r \in Slots :
    (reqs[r].stage # "Idle" /\ InvalidRequest(reqs[r].messages)) =>
      /\ reqs[r].calls = <<>>
      /\ reqs[r].stage \in {"Validating", "Failed"}
      /\ reqs[r].stage = "Failed" => reqs[r].response.status = 400

C1_Witness ==
  \E r \in Slots :
    /\ reqs[r].stage = "Failed"
    /\ reqs[r].response.status = 400
    /\ Len(reqs[r].messages) = 2
    /\ reqs[r].messages[1].content = <<"a">>
    /\ reqs[r].messages[2].content = <<" ">>

\* C2: the sources of a success response are the passage texts the
\* retrieval step of that request returned, same order, same length, whatever
\* the generated text; there are at most K of them
C2_SourcesAreRetrieved ==
  \A r \in Slots :
    reqs[r].response.status = 200 =>
      /\ reqs[r].response.sources = Retrieved(reqs[r])
      /\ Len(reqs[r].response.sources) <= K

C2_Witness ==
  \E r \in Slots :
    /\ reqs[r].response.status = 200
    /\ Len(reqs[r].response.sources) = 2
    /\ reqs[r].response.sources[1] = DOCUMENTS[2]
    /\ reqs[r].response.answer = <<"x">>

\* C3: when the retrieval call or the generation call of a validated request
\* fails, for whatever cause, the response is status 500 with the detail
\* "RAG processing failed" and nothing else: no answer and no sources
C3_GenericFailure ==
  \A r \in Slots :
    (\E i \in 1..Len(reqs[r].calls) : ~reqs[r].calls[i].ok) =>
      /\ reqs[r].stage = "Failed"
      /\ reqs[r].response = [status |-> 500, detail |-> "RAG processing failed"]
      /\ DOMAIN reqs[r].response = {"status", "detail"}

C3_Witness ==
  \E r \in Slots :
    /\ Len(reqs[r].calls) = 2
    /\ ~reqs[r].calls[2].ok
    /\ Len(reqs[r].docs) = 2
    /\ reqs[r].error = "transport"
    /\ reqs[r].response.status = 500

\* C4: with deterministic stand-ins, two handled requests with the same
\* messages have the same outcome, answer and sources included, whatever
\* other requests were handled before or between them
C4_SameRequestSameResponse ==
  \A r, s \in DetSlots :
    ( /\ reqs[r].stage \in {"Responding", "Failed"}
      /\ reqs[s].stage \in {"Responding", "Failed"}
      /\ reqs[r].messages = reqs[s].messages ) =>
        reqs[r].response = reqs[s].response

C4_Witness ==
  /\ reqs[1].stage = "Responding"
  /\ reqs[2].stage = "Responding"
  /\ reqs[1].messages = reqs[2].messages
  /\ reqs[1].response.answer = <<"x">>
  /\ Cardinality(searchMemo) = 2
  /\ Cardinality(genMemo) = 2

\* C5: when the generation call returns a text that is empty or whitespace
\* only, the request succeeds with the empty answer and the retrieved
\* passages as sources
C5_EmptyAnswerIsSuccess ==
  \A r \in Slots :
    ( /\ Len(reqs[r].calls) = 2
      /\ reqs[r].calls[2].ok
      /\ Blank(reqs[r].answer) ) =>
        /\ reqs[r].stage = "Responding"
        /\ reqs[r].response.status = 200
        /\ reqs[r].response.answer = <<>>
        /\ reqs[r].response.sources = Retrieved(reqs[r])

C5_Witness ==
  \E r \in Slots :
    /\ Len(reqs[r].calls) = 2
    /\ reqs[r].calls[2].ok
    /\ reqs[r].answer = <<" ">>
    /\ reqs[r].response.status = 200

\* C6: the query handed to the retrieval step of a request whose history has
\* a user turn is the content of the most recent turn whose role is user
C6_QueryIsLatestUserTurn ==
  \A r \in Slots :
    ( /\ reqs[r].calls # <<>>
      /\ \E u \in 1..Len(reqs[r].messages) : reqs[r].messages[u].role = RoleUser ) =>
      \E i \in 1..Len(reqs[r].messages) :
        /\ reqs[r].messages[i].role = RoleUser
        /\ \A j \in (i + 1)..Len(reqs[r].messages) : reqs[r].messages[j].role # RoleUser
        /\ reqs[r].calls[1].arg = reqs[r].messages[i].content

\* C7: a request with a turn whose role is neither user nor assistant ends
\* in a client error and never reaches retrieval or generation
C7_OnlyUserAndAssistantRoles ==
  \A r \in Slots :
    (\E i \in 1..Len(reqs[r].messages) :
        reqs[r].messages[i].role \notin {RoleUser, RoleAssistant}) =>
      /\ reqs[r].calls = <<>>
      /\ reqs[r].stage \in {"Validating", "Failed"}
      /\ reqs[r].stage = "Failed" => reqs[r].response.status \in 400..499

\* C8: the external calls of a request are a prefix of <<similarity_search,
\* invoke>>, invoke comes only after a successful similarity_search, and a
\* failed call is the last call of the request, which is then Failed
C8_CallsArePrefix ==
  \A r \in Slots :
    /\ CallOps(reqs[r]) \in {<<>>, <<"similarity_search">>, <<"similarity_search", "invoke">>}
    /\ Len(reqs[r].calls) = 2 => reqs[r].calls[1].ok
    /\ \A i \in 1..Len(reqs[r].calls) :
         ~reqs[r].calls[i].ok => (i = Len(reqs[r].calls) /\ reqs[r].stage = "Failed")

C8_Witness ==
  \E r \in Slots :
    /\ Len(reqs[r].calls) = 1
    /\ ~reqs[r].calls[1].ok
    /\ reqs[r].stage = "Failed"

\* C9: the index is built exactly once, before any request is handled, and
\* in every state afterwards, whatever requests are in flight, the index
\* holds the documents of the corpus as built at start-up
C9_IndexBuiltOnceAndImmutable ==
  /\ builds <= 1
  /\ server = "ready" => (builds = 1 /\ vectorstore = documents)
  /\ (\E r \in Slots : reqs[r].stage # "Idle") => (server = "ready" /\ builds = 1)

C9_Witness ==
  \E r, s \in Slots :
    /\ r # s
    /\ reqs[r].stage = "Generating"
    /\ reqs[s].stage = "Responding"
    /\ builds = 1

\* pattern p occurs in s at position i
OccursAt(s, p, i) ==
  /\ i + Len(p) - 1 <= Len(s)
  /\ \A j \in 1..Len(p) : s[i + j - 1] = p[j]

\* the first position at or after i where p occurs in s, 0 when there is none
RECURSIVE Find(_, _, _)
Find(s, p, i) ==
  IF i + Len(p) - 1 > Len(s) THEN 0
  ELSE IF OccursAt(s, p, i) THEN i ELSE Find(s, p, i + 1)

\* the patterns occur in s one after the other, without overlap, from i on
RECURSIVE InOrder(_, _, _)
InOrder(s, pats, i) ==
  IF pats = <<>> THEN TRUE
  ELSE LET at == Find(s, Head(pats), i) IN
       at # 0 /\ InOrder(s, Tail(pats), at + Len(Head(pats)))

\* what the prompt of a request must show: each turn on a line of its own
\* as "role: content", a Context delimiter, each passage at the end of a line
PromptParts(messages, docs) ==
  [i \in 1..Len(messages) |-> NL \o messages[i].role \o <<":", " ">> \o messages[i].content]
  \o << <<"\n", "C", "o", "n", "t", "e", "x", "t", ":">> >>
  \o [i \in 1..Len(docs) |-> docs[i].page_content \o NL]

\* C10: the prompt handed to the generation step holds every turn of the
\* history, the latest included, in turn order and labelled with its role,
\* then a delimiter, then every retrieved passage verbatim in retrieval
\* order, one per line
C10_PromptKeepsHistoryAndPassages ==
  \A r \in Slots :
    \A i \in 1..Len(reqs[r].calls) :
      reqs[r].calls[i].op = "invoke" =>
        InOrder(reqs[r].calls[i].arg, PromptParts(reqs[r].messages, reqs[r].docs), 1)

C10_Witness ==
  \E r \in Slots :
    /\ Len(reqs[r].calls) = 2
    /\ Len(reqs[r].messages) = 2
    /\ reqs[r].messages[1].role = RoleAssistant
    /\ reqs[r].messages[2].role = RoleUser
    /\ Len(reqs[r].docs) = 2

====
